---- MODULE Spec2Model ----
(***************************************************************************)
(* A model of the Hashlife engine of src/src/lib.rs: the hash-consed       *)
(* quadtree (Node, Children), the interning cache (join and step tables,   *)
(* the two singleton leaves), join / empty / step / expand_empty_border,   *)
(* from_array and its recursive construct, next_generation with its three  *)
(* edge branches, the point query get and the two viewport renderers.      *)
(*                                                                         *)
(* Rc<Node> references are modelled as indices into the sequence of        *)
(* allocated nodes (cache.nodes): two references are the same pointer iff  *)
(* the indices are equal.  The 64-bit SipHash of DefaultHasher is modelled *)
(* as an injective function of what is hashed: the hash of a leaf is the   *)
(* one-element sequence of its automaton, the hash of a Children value is  *)
(* the concatenation of the four child hashes (children of one level have  *)
(* hashes of one length, so the concatenation is injective).  Hash         *)
(* collisions are therefore outside the model.                             *)
(*                                                                         *)
(* A Rust panic is modelled by status = "panic"; the engine takes no       *)
(* further step after it.                                                  *)
(***************************************************************************)
EXTENDS Integers, Sequences, FiniteSets, TLC

(***************************************************************************)
(* Bounds of the model.                                                    *)
(***************************************************************************)
MaxWidth == 3
MaxHeight == 3
MaxGen == 2
MaxView == 1
MaxCoord == 3
MaxCacheWidth == 3
MaxCacheHeight == 1
MaxCacheGen == 1
MaxCalls == 2
MaxRefs == 3
MaxEmptyLevel == 2
MaxEngineWidth == 3
MaxEngineHeight == 2
MaxShape == 8
MaxExpandLevel == 3

(***************************************************************************)
(* Automata (automata.rs) and Option.                                      *)
(***************************************************************************)
Dead == 0
Alive == 1
None == 0

Edges == {"Infinite", "Torus", "Truncate"}

Pow2(k) == 2 ^ k

\* Automata::from(usize).  The impl of From<usize> for Automata is not among
\* the sources; it is modelled as the byte encoding is documented: 0 is Dead,
\* any other value Alive.
AutomataFrom(v) == IF v = 0 THEN Dead ELSE Alive

RECURSIVE SumSeq(_)
SumSeq(s) == IF s = <<>> THEN 0 ELSE Head(s) + SumSeq(Tail(s))

\* sim with the center counted among its own living neighbors
sim_center_counted(center, neighbors, birth, servival) ==
    LET living_neighbors == SumSeq(neighbors) + center
    IN  IF center = Alive
        THEN (IF living_neighbors \in servival THEN Alive ELSE Dead)
        ELSE (IF living_neighbors \in birth THEN Alive ELSE Dead)

sim(center, neighbors, birth, servival) ==
    LET living_neighbors == SumSeq(neighbors)
    IN  IF center = Alive
        THEN (IF living_neighbors \in servival THEN Alive ELSE Dead)
        ELSE (IF living_neighbors \in birth THEN Alive ELSE Dead)

\* simb3s23 with birth = vec![2, 3]
simb23s23(center, n1, n2, n3, n4, n5, n6, n7, n8) ==
    sim(center, <<n1, n2, n3, n4, n5, n6, n7, n8>>, {2, 3}, {2, 3})

simb3s23(center, n1, n2, n3, n4, n5, n6, n7, n8) ==
    sim(center, <<n1, n2, n3, n4, n5, n6, n7, n8>>, {3}, {2, 3})

(***************************************************************************)
(* BoundingBox.                                                            *)
(***************************************************************************)
BoundingBox_from(top_, bottom_, left_, right_) ==
    [top |-> top_, bottom |-> bottom_, left |-> left_, right |-> right_]

BoundingBox_new(x, y, level) ==
    LET pow2ld == Pow2(level)
    IN  [top |-> y * pow2ld + pow2ld - 1, bottom |-> y * pow2ld,
         left |-> x * pow2ld, right |-> x * pow2ld + pow2ld - 1]

collides(self, other) ==
    LET other_below_self == other.top < self.bottom
        other_above_self == other.bottom > self.top
        other_right_of_self == other.left > self.right
        other_left_of_self == other.right < self.left
    IN  ~(other_below_self \/ other_above_self
            \/ other_right_of_self \/ other_left_of_self)

BoundingBox_width(self) == self.right - self.left + 1

BoundingBox_height(self) == self.top - self.bottom + 1

\* index with the rows counted from the bottom of the box
BoundingBox_index_unflipped(self, x, y) ==
    ((self.right - self.left) + 1) * (y - self.bottom) + (x - self.left)

\* index is 0-based as in the source; the callers below only pass points of
\* the box, for which none of the usize casts wraps.
BoundingBox_index(self, x, y) ==
    LET width == (self.right - self.left) + 1
        idx_height == self.top - self.bottom
        x_adjusted == x - self.left
        y_adjusted == y - self.bottom
    IN  width * (idx_height - y_adjusted) + x_adjusted

(***************************************************************************)
(* Nodes and the cache.                                                    *)
(*   cache.nodes : the allocated nodes, a reference is an index            *)
(*   cache.join  : HashMap<u64, Rc<Node>>, a function hash -> reference    *)
(*   cache.step  : HashMap<Rc<Node>, Rc<Node>>, key reference -> reference *)
(*   cache.dead, cache.alive : Option<Rc<Node>>                            *)
(*   cache.work  : instrumentation, the number of step bodies computed     *)
(*                 (step-table misses)                                     *)
(***************************************************************************)
Cache_new ==
    [nodes |-> <<>>, join |-> <<>>, step |-> <<>>,
     dead |-> None, alive |-> None, work |-> 0]

\* impl PartialEq for Node
NodeEq(a, b) ==
    a.level = b.level /\ a.population = b.population /\ a.hash = b.hash

\* Bind([r \in {e} |-> body]) is `let r = e; body`: e is evaluated once,
\* before body, and body reads its value as r.  A call that changes the
\* cache returns [c |-> the cache after the call, n |-> the node returned].
Bind(f) == f[CHOOSE v \in DOMAIN f : TRUE]

Alloc(c, node) == [c EXCEPT !.nodes = Append(@, node)]

NewRef(c) == Len(c.nodes) + 1

LeafNode(a) ==
    [level |-> 0, population |-> a, hash |-> <<a>>, children |-> <<>>]

make_automata(c, a) ==
    IF a = Dead
    THEN IF c.dead # None
         THEN [c |-> c, n |-> c.dead]
         ELSE [c |-> [Alloc(c, LeafNode(a)) EXCEPT !.dead = NewRef(c)],
               n |-> NewRef(c)]
    ELSE IF c.alive # None
         THEN [c |-> c, n |-> c.alive]
         ELSE [c |-> [Alloc(c, LeafNode(a)) EXCEPT !.alive = NewRef(c)],
               n |-> NewRef(c)]

\* #[derive(Hash)] on Children feeds the four child hashes, in the order
\* nw, ne, sw, se, to one hasher.  The 64-bit digest is modelled by the
\* sequence fed to the hasher, leaf digests by the automaton: different
\* contents have different hashes (no collision of DefaultHasher is modelled).
calculate_hash(c, children) ==
    c.nodes[children[1]].hash \o c.nodes[children[2]].hash
        \o c.nodes[children[3]].hash \o c.nodes[children[4]].hash

\* join without its three assert_eq!
join_levels_unchecked(c, nw, ne, sw, se) == TRUE

\* The three assert_eq! of join.
join_levels_equal(c, nw, ne, sw, se) ==
    /\ c.nodes[nw].level = c.nodes[ne].level
    /\ c.nodes[nw].level = c.nodes[sw].level
    /\ c.nodes[nw].level = c.nodes[se].level

\* join without the lookup: a node is allocated and bound to the hash on
\* every call
join_entry_uninterned(c, hash, node) ==
    [c |-> [Alloc(c, node) EXCEPT !.join = (hash :> NewRef(c)) @@ @],
     n |-> NewRef(c)]

\* self.cache.join.get(&hash), else Rc::new(Node {..}) and
\* self.cache.join.insert(hash, ..)
join_entry(c, hash, node) ==
    IF hash \in DOMAIN c.join
    THEN [c |-> c, n |-> c.join[hash]]
    ELSE [c |-> [Alloc(c, node) EXCEPT !.join = @ @@ (hash :> NewRef(c))],
          n |-> NewRef(c)]

\* join that never reads the join table: every call makes a new node
join_fresh(c, nw, ne, sw, se) ==
    [c |-> [Alloc(c, [level |-> c.nodes[nw].level + 1,
                      population |-> c.nodes[nw].population
                                       + c.nodes[ne].population
                                       + c.nodes[sw].population
                                       + c.nodes[se].population,
                      hash |-> calculate_hash(c, <<nw, ne, sw, se>>),
                      children |-> <<nw, ne, sw, se>>])
              EXCEPT !.join = (calculate_hash(c, <<nw, ne, sw, se>>)
                                  :> NewRef(c)) @@ @],
     n |-> NewRef(c)]

\* join with the population of the new node taken from its nw child alone
join_population_of_nw(c, nw, ne, sw, se) ==
    Bind([children \in {<<nw, ne, sw, se>>} |->
    Bind([hash \in {calculate_hash(c, children)} |->
        join_entry(c, hash,
            [level |-> c.nodes[nw].level + 1,
             population |-> c.nodes[nw].population,
             hash |-> hash, children |-> children])])])

join(c, nw, ne, sw, se) ==
    Bind([children \in {<<nw, ne, sw, se>>} |->
    Bind([hash \in {calculate_hash(c, children)} |->
        join_entry(c, hash,
            [level |-> c.nodes[nw].level + 1,
             population |-> c.nodes[nw].population + c.nodes[ne].population
                              + c.nodes[sw].population + c.nodes[se].population,
             hash |-> hash, children |-> children])])])

RECURSIVE empty(_, _)
empty(c, level) ==
    IF level = 0
    THEN make_automata(c, Dead)
    ELSE Bind([r \in {empty(c, level - 1)} |->
         Bind([children \in {<<r.n, r.n, r.n, r.n>>} |->
         Bind([hash \in {calculate_hash(r.c, children)} |->
             join_entry(r.c, hash,
                 [level |-> level, population |-> 0,
                  hash |-> hash, children |-> children])])])])

get_children(c, node) ==
    [nw |-> c.nodes[node].children[1], ne |-> c.nodes[node].children[2],
     sw |-> c.nodes[node].children[3], se |-> c.nodes[node].children[4]]

get_grand_children(c, node) ==
    Bind([k \in {get_children(c, node)} |->
    Bind([nw \in {get_children(c, k.nw)} |->
    Bind([ne \in {get_children(c, k.ne)} |->
    Bind([sw \in {get_children(c, k.sw)} |->
    Bind([se \in {get_children(c, k.se)} |->
        [nwnw |-> nw.nw, nwne |-> nw.ne, nwsw |-> nw.sw, nwse |-> nw.se,
         nenw |-> ne.nw, nene |-> ne.ne, nesw |-> ne.sw, nese |-> ne.se,
         swnw |-> sw.nw, swne |-> sw.ne, swsw |-> sw.sw, swse |-> sw.se,
         senw |-> se.nw, sene |-> se.ne, sesw |-> se.sw, sese |-> se.se]
    ])])])])])

as_automata(c, node) == AutomataFrom(c.nodes[node].population)

get_grand_automata(c, node) ==
    Bind([g \in {get_grand_children(c, node)} |->
        [f \in DOMAIN g |-> as_automata(c, g[f])]])

(***************************************************************************)
(* step and its helpers.                                                   *)
(***************************************************************************)
into_nonants(c, node) ==
    Bind([k \in {get_children(c, node)} |->
    Bind([g \in {get_grand_children(c, node)} |->
    Bind([n_ \in {join(c, g.nwne, g.nenw, g.nwse, g.nesw)} |->
    Bind([e_ \in {join(n_.c, g.nesw, g.nese, g.senw, g.sene)} |->
    Bind([s_ \in {join(e_.c, g.swne, g.senw, g.swse, g.sesw)} |->
    Bind([w_ \in {join(s_.c, g.nwsw, g.nwse, g.swnw, g.swne)} |->
    Bind([c_ \in {join(w_.c, g.nwse, g.nesw, g.swne, g.senw)} |->
        [c |-> c_.c,
         nw |-> k.nw, ne |-> k.ne, sw |-> k.sw, se |-> k.se,
         n_ |-> n_.n, e_ |-> e_.n, s_ |-> s_.n, w_ |-> w_.n, c_ |-> c_.n]
    ])])])])])])])

\* join_nonants with the quadrants of nw_res taken from the opposite corners
\* of the stepped nonants (nw.nw, n_.se, w_.sw, c_.se)
join_nonants_far_corners(c, nodes) ==
    Bind([nw_res \in {join(c,
                           get_children(c, nodes.nw).nw,
                           get_children(c, nodes.n_).se,
                           get_children(c, nodes.w_).sw,
                           get_children(c, nodes.c_).se)} |->
    Bind([ne_res \in {join(nw_res.c,
                           get_children(c, nodes.n_).se,
                           get_children(c, nodes.ne).sw,
                           get_children(c, nodes.c_).ne,
                           get_children(c, nodes.e_).nw)} |->
    Bind([sw_res \in {join(ne_res.c,
                           get_children(c, nodes.w_).se,
                           get_children(c, nodes.c_).sw,
                           get_children(c, nodes.sw).ne,
                           get_children(c, nodes.s_).nw)} |->
    Bind([se_res \in {join(sw_res.c,
                           get_children(c, nodes.c_).se,
                           get_children(c, nodes.e_).sw,
                           get_children(c, nodes.s_).ne,
                           get_children(c, nodes.se).nw)} |->
        join(se_res.c, nw_res.n, ne_res.n, sw_res.n, se_res.n)
    ])])])])

join_nonants(c, nodes) ==
    Bind([nw_res \in {join(c,
                           get_children(c, nodes.nw).se,
                           get_children(c, nodes.n_).sw,
                           get_children(c, nodes.w_).ne,
                           get_children(c, nodes.c_).nw)} |->
    Bind([ne_res \in {join(nw_res.c,
                           get_children(c, nodes.n_).se,
                           get_children(c, nodes.ne).sw,
                           get_children(c, nodes.c_).ne,
                           get_children(c, nodes.e_).nw)} |->
    Bind([sw_res \in {join(ne_res.c,
                           get_children(c, nodes.w_).se,
                           get_children(c, nodes.c_).sw,
                           get_children(c, nodes.sw).ne,
                           get_children(c, nodes.s_).nw)} |->
    Bind([se_res \in {join(sw_res.c,
                           get_children(c, nodes.c_).se,
                           get_children(c, nodes.e_).sw,
                           get_children(c, nodes.s_).ne,
                           get_children(c, nodes.se).nw)} |->
        join(se_res.c, nw_res.n, ne_res.n, sw_res.n, se_res.n)
    ])])])])

\* the level-2 arm with the first neighbour of nw read from the far corner
\* (g.nene for g.nwnw)
step_level2_far_neighbor(c, node) ==
    Bind([g \in {get_grand_automata(c, node)} |->
    Bind([nw \in {simb3s23(g.nwse, g.nene, g.nwne, g.nenw, g.nesw, g.senw, g.swne, g.swnw, g.nwsw)} |->
    Bind([ne \in {simb3s23(g.nesw, g.nwne, g.nenw, g.nene, g.nese, g.sene, g.senw, g.swne, g.nwse)} |->
    Bind([sw \in {simb3s23(g.swne, g.nwsw, g.nwse, g.nesw, g.senw, g.sesw, g.swse, g.swsw, g.swnw)} |->
    Bind([se \in {simb3s23(g.senw, g.nwse, g.nesw, g.nese, g.sene, g.sese, g.sesw, g.swse, g.swne)} |->
    Bind([m1 \in {make_automata(c, nw)} |->
    Bind([m2 \in {make_automata(m1.c, ne)} |->
    Bind([m3 \in {make_automata(m2.c, sw)} |->
    Bind([m4 \in {make_automata(m3.c, se)} |->
        join(m4.c, m1.n, m2.n, m3.n, m4.n)
    ])])])])])])])])])

\* The level-2 arm of step: the four centre cells of the 4x4 block.
step_level2(c, node) ==
    Bind([g \in {get_grand_automata(c, node)} |->
    Bind([nw \in {simb3s23(g.nwse, g.nwnw, g.nwne, g.nenw, g.nesw, g.senw, g.swne, g.swnw, g.nwsw)} |->
    Bind([ne \in {simb3s23(g.nesw, g.nwne, g.nenw, g.nene, g.nese, g.sene, g.senw, g.swne, g.nwse)} |->
    Bind([sw \in {simb3s23(g.swne, g.nwsw, g.nwse, g.nesw, g.senw, g.sesw, g.swse, g.swsw, g.swnw)} |->
    Bind([se \in {simb3s23(g.senw, g.nwse, g.nesw, g.nese, g.sene, g.sese, g.sesw, g.swse, g.swne)} |->
    Bind([m1 \in {make_automata(c, nw)} |->
    Bind([m2 \in {make_automata(m1.c, ne)} |->
    Bind([m3 \in {make_automata(m2.c, sw)} |->
    Bind([m4 \in {make_automata(m3.c, se)} |->
        join(m4.c, m1.n, m2.n, m3.n, m4.n)
    ])])])])])])])])])

\* the lookup in the step table by the level of the key alone
step_cached_by_level(c, node) ==
    {k \in DOMAIN c.step : c.nodes[k].level = c.nodes[node].level}

\* self.cache.step.get(&node): a HashMap lookup, by the key's Hash (the hash
\* field) and Eq (NodeEq).
step_cached(c, node) ==
    {k \in DOMAIN c.step : NodeEq(c.nodes[k], c.nodes[node])}

\* the insert of step emptying the table first: only the last entry is kept
step_insert_cleared(r, node) ==
    [c |-> [r.c EXCEPT !.step = (node :> r.n), !.work = @ + 1],
     n |-> r.n]

\* self.cache.step.insert(node, result); the body of step has been computed.
\* HashMap::insert binds an equal key that is present to the new value.
step_insert(r, node) ==
    IF step_cached(r.c, node) # {}
    THEN [c |-> [r.c EXCEPT
                   !.step[CHOOSE k \in step_cached(r.c, node) : TRUE] = r.n,
                   !.work = @ + 1],
          n |-> r.n]
    ELSE [c |-> [r.c EXCEPT !.step = (node :> r.n) @@ @, !.work = @ + 1],
          n |-> r.n]

\* Invarient: Node.level >= 2
RECURSIVE step(_, _)
\* the match of step, for a node of level >= 2
step_match(c, node) ==
    IF c.nodes[node].level = 2
    THEN step_level2(c, node)
    ELSE
    Bind([g9x9 \in {into_nonants(c, node)} |->
    Bind([nw \in {step(g9x9.c, g9x9.nw)} |->
    Bind([ne \in {step(nw.c, g9x9.ne)} |->
    Bind([sw \in {step(ne.c, g9x9.sw)} |->
    Bind([se \in {step(sw.c, g9x9.se)} |->
    Bind([n_ \in {step(se.c, g9x9.n_)} |->
    Bind([e_ \in {step(n_.c, g9x9.e_)} |->
    Bind([s_ \in {step(e_.c, g9x9.s_)} |->
    Bind([w_ \in {step(s_.c, g9x9.w_)} |->
    Bind([c_ \in {step(w_.c, g9x9.c_)} |->
        join_nonants(c_.c,
            [nw |-> nw.n, ne |-> ne.n, sw |-> sw.n, se |-> se.n,
             n_ |-> n_.n, e_ |-> e_.n, s_ |-> s_.n, w_ |-> w_.n,
             c_ |-> c_.n])
    ])])])])])])])])])])

\* step without the lookup in the step table: the match is run on every call
step_unmemoized(c, node) == step_insert(step_match(c, node), node)

step(c, node) ==
    IF step_cached(c, node) # {}
    THEN [c |-> c, n |-> c.step[CHOOSE k \in step_cached(c, node) : TRUE]]
    ELSE step_insert(step_match(c, node), node)

\* expand_empty_border with each child put in the outer corner of its
\* quadrant instead of the corner at the centre
expand_empty_border_outer_corners(c, node) ==
    Bind([k \in {get_children(c, node)} |->
    Bind([e \in {empty(c, c.nodes[node].level - 1)} |->
    Bind([nw \in {join(e.c, k.nw, e.n, e.n, e.n)} |->
    Bind([ne \in {join(nw.c, e.n, k.ne, e.n, e.n)} |->
    Bind([sw \in {join(ne.c, e.n, e.n, k.sw, e.n)} |->
    Bind([se \in {join(sw.c, e.n, e.n, e.n, k.se)} |->
        join(se.c, nw.n, ne.n, sw.n, se.n)
    ])])])])])])

expand_empty_border(c, node) ==
    Bind([k \in {get_children(c, node)} |->
    Bind([e \in {empty(c, c.nodes[node].level - 1)} |->
    Bind([nw \in {join(e.c, e.n, e.n, e.n, k.nw)} |->
    Bind([ne \in {join(nw.c, e.n, e.n, k.ne, e.n)} |->
    Bind([sw \in {join(ne.c, e.n, k.sw, e.n, e.n)} |->
    Bind([se \in {join(sw.c, k.se, e.n, e.n, e.n)} |->
        join(se.c, nw.n, ne.n, sw.n, se.n)
    ])])])])])])

(***************************************************************************)
(* next_generation.  The engine is the record                              *)
(*   [cache, edge, top, previous, gen]                                     *)
(* and a result carries panic = TRUE when the call panicked (the fields    *)
(* are then as the call left them when it unwound).                        *)
(***************************************************************************)
\* boarder_population with the outer ring never counted: the result of step
\* is contracted whatever lives on its border
boarder_population_uncounted(c, next, g) == 0

\* next.population - (nwse + nesw + swne + senw).population
boarder_population(c, next, g) ==
    c.nodes[next].population
        - c.nodes[g.nwse].population - c.nodes[g.nesw].population
        - c.nodes[g.swne].population - c.nodes[g.senw].population

\* the Infinite arm without the contraction: the result of step is the root
\* whatever its border holds
next_generation_Infinite_uncontracted(c, top_) ==
    Bind([expanded \in {expand_empty_border(c, top_)} |->
    Bind([expanded2 \in {expand_empty_border(expanded.c, expanded.n)} |->
        step(expanded2.c, expanded2.n)
    ])])

next_generation_Infinite(c, top_) ==
    Bind([expanded \in {expand_empty_border(c, top_)} |->
    Bind([expanded2 \in {expand_empty_border(expanded.c, expanded.n)} |->
    Bind([next \in {step(expanded2.c, expanded2.n)} |->
    Bind([g \in {get_grand_children(next.c, next.n)} |->
        IF boarder_population(next.c, next.n, g) = 0
        THEN join(next.c, g.nwse, g.nesw, g.swne, g.senw)
        ELSE next
    ])])])])

next_generation_Torus(c, top_) ==
    Bind([k \in {get_children(c, top_)} |->
    Bind([inverted \in {join(c, k.se, k.sw, k.ne, k.nw)} |->
    Bind([expanded \in {join(inverted.c, inverted.n, inverted.n,
                             inverted.n, inverted.n)} |->
        step(expanded.c, expanded.n)
    ])])])

next_generation_Truncate(c, top_) ==
    Bind([expanded \in {expand_empty_border(c, top_)} |->
        step(expanded.c, expanded.n)])

\* next_generation with the statement self.gen += 1 left out
next_generation_uncounted(h) ==
    IF h.top = None
    THEN [h |-> h, panic |-> FALSE]
    ELSE IF h.cache.nodes[h.top].level = 0
    THEN [h |-> [h EXCEPT !.previous = h.top], panic |-> TRUE]
    ELSE
    Bind([next \in {CASE h.edge = "Infinite" -> next_generation_Infinite(h.cache, h.top)
                      [] h.edge = "Torus" -> next_generation_Torus(h.cache, h.top)
                      [] h.edge = "Truncate" -> next_generation_Truncate(h.cache, h.top)} |->
        [h |-> [h EXCEPT !.previous = h.top, !.cache = next.c, !.top = next.n],
         panic |-> FALSE]])

next_generation(h) ==
    IF h.top = None
    THEN [h |-> h, panic |-> FALSE]
    ELSE IF h.cache.nodes[h.top].level = 0
    \* previous is assigned first; then every arm starts with get_children()
    \* of top, which unwraps None on a leaf
    THEN [h |-> [h EXCEPT !.previous = h.top], panic |-> TRUE]
    ELSE
    Bind([next \in {CASE h.edge = "Infinite" -> next_generation_Infinite(h.cache, h.top)
                      [] h.edge = "Torus" -> next_generation_Torus(h.cache, h.top)
                      [] h.edge = "Truncate" -> next_generation_Truncate(h.cache, h.top)} |->
        [h |-> [h EXCEPT !.previous = h.top, !.cache = next.c,
                         !.top = next.n, !.gen = @ + 1],
         panic |-> FALSE]])

get_generation(h) == h.gen

(***************************************************************************)
(* from_array and construct.                                               *)
(***************************************************************************)
RECURSIVE FloorLog2(_)
\* log2 rounded down instead of up
FloorLog2(n) == IF n <= 1 THEN 0 ELSE 1 + FloorLog2(n \div 2)

\* (larger_length as f64).log2().ceil() as usize, for larger_length >= 1
RECURSIVE CeilLog2(_)
CeilLog2(n) == IF n <= 1 THEN 0 ELSE 1 + CeilLog2((n + 1) \div 2)

\* the level-0 arm of construct with the rows of the vector read from the
\* bottom of the bound
construct_leaf_unflipped(c, x, y, params) ==
    IF ~collides(BoundingBox_new(x, y, 0), params.bound)
    THEN empty(c, 0)
    ELSE make_automata(c, AutomataFrom(
             params.vector[params.width * (y - params.bound.bottom)
                             + (x - params.bound.left) + 1]))

\* the level-0 arm of construct
construct_leaf(c, x, y, params) ==
    IF ~collides(BoundingBox_new(x, y, 0), params.bound)
    THEN empty(c, 0)
    ELSE
    Bind([xidx \in {x - params.bound.left} |->
    Bind([yidx \in {params.height - 1 - (y - params.bound.bottom)} |->
    Bind([idx \in {params.width * yidx + xidx} |->
        make_automata(c, AutomataFrom(params.vector[idx + 1]))
    ])])])

\* the closure assemble tests the box (x, y, level - 1) of the node it is
\* called in, whatever dx and dy are
assemble_collides(x, y, level, params) ==
    collides(BoundingBox_new(x, y, level - 1), params.bound)

RECURSIVE construct(_, _, _, _, _)
\* the closure assemble of construct(x, y, level)
assemble(c, x, y, level, params, dx, dy) ==
    IF assemble_collides(x, y, level, params)
    THEN construct(c, x * 2 + dx, y * 2 + dy, level - 1, params)
    ELSE empty(c, level - 1)

construct(c, x, y, level, params) ==
    IF level = 0
    THEN construct_leaf(c, x, y, params)
    ELSE
    Bind([nw \in {assemble(c, x, y, level, params, 0, 1)} |->
    Bind([ne \in {assemble(nw.c, x, y, level, params, 1, 1)} |->
    Bind([sw \in {assemble(ne.c, x, y, level, params, 0, 0)} |->
    Bind([se \in {assemble(sw.c, x, y, level, params, 1, 0)} |->
        join(se.c, nw.n, ne.n, sw.n, se.n)
    ])])])])

Max(a, b) == IF a >= b THEN a ELSE b

Hashlife_new ==
    [cache |-> Cache_new, edge |-> "Infinite", top |-> None,
     previous |-> None, gen |-> 0]

\* The parameter edge_ is not read by the body.
from_array(buffer_, width, height, edge_) ==
    Bind([hashlife \in {Hashlife_new} |->
    Bind([left \in {-(width \div 2)} |->
    Bind([right \in {width + left - 1} |->
    Bind([bottom \in {-(height \div 2)} |->
    Bind([top_ \in {height + bottom - 1} |->
    Bind([bound \in {BoundingBox_from(top_, bottom, left, right)} |->
    Bind([size \in {CeilLog2(Max(width, height))} |->
    Bind([params \in {[level |-> size, vector |-> buffer_, width |-> width,
                       height |-> height, bound |-> bound]} |->
        IF size = 0
        THEN Bind([m \in {make_automata(hashlife.cache,
                                        AutomataFrom(buffer_[1]))} |->
                 [hashlife EXCEPT !.cache = m.c, !.top = m.n]])
        ELSE
        Bind([nw \in {construct(hashlife.cache, -1, 0, size - 1, params)} |->
        Bind([ne \in {construct(nw.c, 0, 0, size - 1, params)} |->
        Bind([sw \in {construct(ne.c, -1, -1, size - 1, params)} |->
        Bind([se \in {construct(sw.c, 0, -1, size - 1, params)} |->
        Bind([t \in {join(se.c, nw.n, ne.n, sw.n, se.n)} |->
            [hashlife EXCEPT !.cache = t.c, !.top = t.n]
        ])])])])])
    ])])])])])])])])

(***************************************************************************)
(* get.  A result is [panic, value].                                       *)
(***************************************************************************)
\* div_euclid(2)
DivEuclid2(v) == v \div 2

RECURSIVE get_node_with(_, _, _, _, _)
get_node_with(c, x, y, positions, node) ==
    IF c.nodes[node].level = 0
    THEN [panic |-> FALSE, value |-> as_automata(c, node)]
    ELSE LET position == positions[c.nodes[node].level]
             nw == <<x * 2, y * 2 + 1>>
             ne == <<x * 2 + 1, y * 2 + 1>>
             sw == <<x * 2, y * 2>>
             se == <<x * 2 + 1, y * 2>>
             children == get_children(c, node)
         IN  IF position = nw THEN get_node_with(c, nw[1], nw[2], positions, children.nw)
             ELSE IF position = ne THEN get_node_with(c, ne[1], ne[2], positions, children.ne)
             ELSE IF position = sw THEN get_node_with(c, sw[1], sw[2], positions, children.sw)
             ELSE IF position = se THEN get_node_with(c, se[1], se[2], positions, children.se)
             ELSE [panic |-> TRUE, value |-> None]

\* positions[i] (1-based here) is (x, y) halved i - 1 times
RECURSIVE get_positions(_, _, _)
get_positions(xx, yy, n) ==
    IF n = 0 THEN <<>>
    ELSE <<<<xx, yy>>>> \o get_positions(DivEuclid2(xx), DivEuclid2(yy), n - 1)

\* value = None with panic = FALSE is the Option None
get(h, x, y) ==
    IF h.top = None
    THEN [panic |-> FALSE, value |-> None, some |-> FALSE]
    ELSE LET c == h.cache
             positions == get_positions(x, y, c.nodes[h.top].level)
         IN  IF c.nodes[h.top].level = 0
             \* top.get_children() on a leaf
             THEN [panic |-> TRUE, value |-> None, some |-> FALSE]
             ELSE
             Bind([children \in {get_children(c, h.top)} |->
             Bind([r \in {IF y < 0
                          THEN IF x < 0
                               THEN get_node_with(c, -1, -1, positions, children.sw)
                               ELSE get_node_with(c, 0, -1, positions, children.se)
                          ELSE IF x < 0
                               THEN get_node_with(c, -1, 0, positions, children.nw)
                               ELSE get_node_with(c, 0, 0, positions, children.ne)} |->
                 [panic |-> r.panic, value |-> r.value, some |-> ~r.panic]
             ])])

(***************************************************************************)
(* The renderers.  A draw state is [buf, written, panic]: the buffer (a    *)
(* sequence, buffer[i] of the source is buf[i + 1]), the set of 0-based    *)
(* indices assigned so far, and whether the call has panicked (nothing is  *)
(* executed after a panic).                                                *)
(***************************************************************************)
max_level(h) == IF h.top # None THEN h.cache.nodes[h.top].level ELSE 0

DrawStart(buffer_) == [buf |-> buffer_, written |-> {}, panic |-> FALSE]

\* buffer[i] = v, with the slice's bounds check
BufWrite(d, i, v) ==
    IF i < 0 \/ i >= Len(d.buf)
    THEN [d EXCEPT !.panic = TRUE]
    ELSE [d EXCEPT !.buf[i + 1] = v, !.written = @ \cup {i}]

RECURSIVE draw_to_cell(_, _, _, _, _, _)
draw_to_cell(c, d, node, viewport_, x, y) ==
    LET area == BoundingBox_new(x, y, c.nodes[node].level)
    IN  IF d.panic \/ ~collides(area, viewport_)
        THEN d
        ELSE IF c.nodes[node].level = 0
        THEN BufWrite(d, BoundingBox_index(viewport_, x, y), c.nodes[node].population)
        ELSE LET k == get_children(c, node)
                 d1 == draw_to_cell(c, d, k.nw, viewport_, 2 * x + 0, 2 * y + 1)
                 d2 == draw_to_cell(c, d1, k.ne, viewport_, 2 * x + 1, 2 * y + 1)
                 d3 == draw_to_cell(c, d2, k.sw, viewport_, 2 * x + 0, 2 * y + 0)
             IN  draw_to_cell(c, d3, k.se, viewport_, 2 * x + 1, 2 * y + 0)

draw_to_viewport_buffer(h, buffer_, viewport_) ==
    IF max_level(h) = 0
    THEN IF h.top # None
         THEN BufWrite(DrawStart(buffer_), 0, h.cache.nodes[h.top].population)
         ELSE DrawStart(buffer_)
    ELSE LET c == h.cache
             k == get_children(c, h.top)
             d1 == draw_to_cell(c, DrawStart(buffer_), k.nw, viewport_, -1, 0)
             d2 == draw_to_cell(c, d1, k.ne, viewport_, 0, 0)
             d3 == draw_to_cell(c, d2, k.sw, viewport_, -1, -1)
         IN  draw_to_cell(c, d3, k.se, viewport_, 0, -1)

RECURSIVE draw_diff_to_cell(_, _, _, _, _, _, _)
\* the closure draw_down with its test n == p left out: every child is
\* descended into
draw_down_unconditional(c, d, viewport_, x, y, dx, dy, n, p) ==
    draw_diff_to_cell(c, d, n, p, viewport_, 2 * x + dx, 2 * y + dy)

\* the closure draw_down of draw_diff_to_cell(.., x, y)
draw_down(c, d, viewport_, x, y, dx, dy, n, p) ==
    IF NodeEq(c.nodes[n], c.nodes[p])
    THEN d
    ELSE draw_diff_to_cell(c, d, n, p, viewport_, 2 * x + dx, 2 * y + dy)

draw_diff_to_cell(c, d, node, previous_, viewport_, x, y) ==
    LET area == BoundingBox_new(x, y, c.nodes[node].level)
    IN  IF d.panic \/ ~collides(area, viewport_)
        THEN d
        ELSE IF c.nodes[node].level = 0
        THEN BufWrite(d, BoundingBox_index(viewport_, x, y), c.nodes[node].population)
        ELSE IF c.nodes[previous_].level = 0
        \* previous.get_children() on a leaf
        THEN [d EXCEPT !.panic = TRUE]
        ELSE
        Bind([k \in {get_children(c, node)} |->
        Bind([pc \in {get_children(c, previous_)} |->
        Bind([d1 \in {draw_down(c, d, viewport_, x, y, 0, 1, k.nw, pc.nw)} |->
        Bind([d2 \in {draw_down(c, d1, viewport_, x, y, 1, 1, k.ne, pc.ne)} |->
        Bind([d3 \in {draw_down(c, d2, viewport_, x, y, 0, 0, k.sw, pc.sw)} |->
            draw_down(c, d3, viewport_, x, y, 1, 0, k.se, pc.se)
        ])])])])])

draw_diff_to_viewport_array(h, buffer_, viewport_) ==
    IF max_level(h) = 0
    THEN IF h.top # None
         THEN BufWrite(DrawStart(buffer_), 0, h.cache.nodes[h.top].population)
         ELSE DrawStart(buffer_)
    ELSE IF h.previous = None \/ h.cache.nodes[h.previous].level = 0
    THEN DrawStart(buffer_)
    ELSE LET c == h.cache
             t == get_children(c, h.top)
             p == get_children(c, h.previous)
             top_down(dd, n, q, x, y) ==
                 IF ~NodeEq(c.nodes[n], c.nodes[q])
                 THEN draw_diff_to_cell(c, dd, n, q, viewport_, x, y)
                 ELSE dd
             d1 == top_down(DrawStart(buffer_), t.nw, p.nw, -1, 0)
             d2 == top_down(d1, t.ne, p.ne, 0, 0)
             d3 == top_down(d2, t.sw, p.sw, -1, -1)
         IN  top_down(d3, t.se, p.se, 0, -1)

(***************************************************************************)
(* The state.                                                              *)
(*   cache, edge, top, previous, gen : the fields of Hashlife              *)
(*   status   : "ok", or "panic" once a call has panicked                  *)
(*   input    : the arguments of the from_array call that built the engine *)
(*   ret      : the last call, its arguments and what it returned          *)
(*   buffer, viewport : the buffer and viewport passed to the last render, *)
(*              as the render left the buffer                              *)
(*   calls    : the direct calls of join and step made so far, each with   *)
(*              the node it returned, and their number n (with the direct  *)
(*              calls of empty)                                            *)
(***************************************************************************)
VARIABLES cache, edge, top, previous, gen, status, input, ret, buffer, viewport,
          calls

vars ==
    <<cache, edge, top, previous, gen, status, input, ret, buffer, viewport,
      calls>>

Engine ==
    [cache |-> cache, edge |-> edge, top |-> top, previous |-> previous,
     gen |-> gen]

\* the buffers of width * height values in {0, 1}
Buffers(width, height) == [1 .. width * height -> {0, 1}]

Zeroed(viewport_) ==
    [i \in 1 .. BoundingBox_width(viewport_) * BoundingBox_height(viewport_) |-> 0]

Viewports ==
    {BoundingBox_from(t, b, l, r) :
        <<t, b, l, r>> \in
            {q \in (-MaxView .. MaxView) \X (-MaxView .. MaxView)
                    \X (-MaxView .. MaxView) \X (-MaxView .. MaxView) :
                q[1] >= q[2] /\ q[3] <= q[4]}}

Coords == -MaxCoord .. MaxCoord - 1

InitWith(widths, heights, edges) ==
    \E width \in widths, height \in heights, edge_ \in edges :
      \E buffer_ \in Buffers(width, height) :
      \E h \in {from_array(buffer_, width, height, edge_)} :
            /\ cache = h.cache
            /\ edge = h.edge
            /\ top = h.top
            /\ previous = h.previous
            /\ gen = h.gen
            /\ status = "ok"
            /\ input = [buffer |-> buffer_, width |-> width,
                        height |-> height, edge |-> edge_]
            /\ ret = [op |-> "from_array"]
            /\ buffer = <<>>
            /\ viewport = BoundingBox_from(0, 0, 0, 0)
            /\ calls = [join |-> <<>>, step |-> <<>>, n |-> 0]

Init == InitWith(1 .. MaxWidth, 1 .. MaxHeight, Edges)

\* the engines the render specification starts from
InitRender == InitWith(1 .. MaxWidth, 1 .. MaxHeight, {"Truncate"})

NextGeneration ==
    /\ status = "ok"
    /\ gen < MaxGen
    /\ \E r \in {next_generation(Engine)} :
           /\ cache' = r.h.cache
           /\ top' = r.h.top
           /\ previous' = r.h.previous
           /\ gen' = r.h.gen
           /\ edge' = r.h.edge
           /\ status' = IF r.panic THEN "panic" ELSE "ok"
    /\ ret' = [op |-> "next_generation"]
    /\ UNCHANGED <<input, buffer, viewport, calls>>

Get(x, y) ==
    /\ status = "ok"
    /\ \E r \in {get(Engine, x, y)} :
           /\ ret' = [op |-> "get", x |-> x, y |-> y, some |-> r.some,
                      value |-> r.value]
           /\ status' = IF r.panic THEN "panic" ELSE "ok"
    /\ UNCHANGED <<cache, edge, top, previous, gen, input, buffer, viewport, calls>>

\* draw_to_viewport_buffer into a zeroed buffer of the viewport's size
DrawFull(viewport_) ==
    /\ status = "ok"
    /\ \E d \in {draw_to_viewport_buffer(Engine, Zeroed(viewport_), viewport_)} :
           /\ buffer' = d.buf
           /\ ret' = [op |-> "draw_to_viewport_buffer", written |-> d.written,
                      before |-> Zeroed(viewport_), seeded |-> FALSE]
           /\ status' = IF d.panic THEN "panic" ELSE "ok"
    /\ viewport' = viewport_
    /\ UNCHANGED <<cache, edge, top, previous, gen, input, calls>>

\* What draw_to_viewport_buffer wrote into a zeroed buffer when the root was
\* `previous`: the buffer a caller holds that rendered the generation before
\* the last next_generation.  (The renderers read the nodes only, never the
\* tables, so the cache of today renders yesterday's root as yesterday's did.)
RenderOfPrevious(viewport_) ==
    draw_to_viewport_buffer([Engine EXCEPT !.top = previous],
                            Zeroed(viewport_), viewport_).buf

\* draw_diff_to_viewport_array; the caller passes either a zeroed buffer (as
\* tests::draw_diff_viewport_buffer does) or the render of the previous
\* generation
DrawDiff(viewport_, seeded) ==
    /\ status = "ok"
    /\ seeded => previous # None
    /\ \E before \in {IF seeded THEN RenderOfPrevious(viewport_)
                       ELSE Zeroed(viewport_)} :
         \E d \in {draw_diff_to_viewport_array(Engine, before, viewport_)} :
           /\ buffer' = d.buf
           /\ ret' = [op |-> "draw_diff_to_viewport_array",
                      written |-> d.written, before |-> before,
                      seeded |-> seeded]
           /\ status' = IF d.panic THEN "panic" ELSE "ok"
    /\ viewport' = viewport_
    /\ UNCHANGED <<cache, edge, top, previous, gen, input, calls>>

(***************************************************************************)
(* Direct calls of the private methods join, step and empty on the         *)
(* engine's cache, as the tests of the crate make them.  The arguments are *)
(* nodes the engine holds: for join, any four of the MaxRefs nodes         *)
(* allocated first; for step, any node of level >= 2 or any of those       *)
(* MaxRefs nodes.  ret keeps the cache as it was before the call and the   *)
(* node an earlier call with the same arguments returned (None if there    *)
(* was no such call).                                                      *)
(***************************************************************************)
JoinPool == {r \in DOMAIN cache.nodes : r <= MaxRefs}

StepPool ==
    {r \in DOMAIN cache.nodes : cache.nodes[r].level >= 2 \/ r <= MaxRefs}

Earlier(log, args) == IF args \in DOMAIN log THEN log[args] ELSE None

JoinCall(nw, ne, sw, se) ==
    /\ status = "ok"
    /\ calls.n < MaxCalls
    /\ IF join_levels_equal(cache, nw, ne, sw, se)
       THEN \E r \in {join(cache, nw, ne, sw, se)} :
              /\ cache' = r.c
              /\ ret' = [op |-> "join", args |-> <<nw, ne, sw, se>>,
                         node |-> r.n, before |-> cache,
                         earlier |-> Earlier(calls.join, <<nw, ne, sw, se>>)]
              /\ calls' = [calls EXCEPT
                             !.join = (<<nw, ne, sw, se>> :> r.n) @@ @,
                             !.n = @ + 1]
              /\ status' = "ok"
       \* an assert_eq! fails before the join table is read
       ELSE /\ cache' = cache
            /\ ret' = [op |-> "join", args |-> <<nw, ne, sw, se>>,
                       node |-> None, before |-> cache, earlier |-> None]
            /\ calls' = [calls EXCEPT !.n = @ + 1]
            /\ status' = "panic"
    /\ UNCHANGED <<edge, top, previous, gen, input, buffer, viewport>>

StepCall(node) ==
    /\ status = "ok"
    /\ calls.n < MaxCalls
    /\ IF step_cached(cache, node) # {} \/ cache.nodes[node].level >= 2
       THEN \E r \in {step(cache, node)} :
              /\ cache' = r.c
              /\ ret' = [op |-> "step", args |-> node, node |-> r.n,
                         before |-> cache,
                         earlier |-> Earlier(calls.step, node)]
              /\ calls' = [calls EXCEPT !.step = (node :> r.n) @@ @,
                                        !.n = @ + 1]
              /\ status' = "ok"
       \* panic!("attempted to step a node with level 0") or 1
       ELSE /\ cache' = cache
            /\ ret' = [op |-> "step", args |-> node, node |-> None,
                       before |-> cache, earlier |-> None]
            /\ calls' = [calls EXCEPT !.n = @ + 1]
            /\ status' = "panic"
    /\ UNCHANGED <<edge, top, previous, gen, input, buffer, viewport>>

EmptyCall(level) ==
    /\ status = "ok"
    /\ calls.n < MaxCalls
    /\ \E r \in {empty(cache, level)} :
         /\ cache' = r.c
         /\ ret' = [op |-> "empty", args |-> level, node |-> r.n,
                    before |-> cache, earlier |-> None]
    /\ calls' = [calls EXCEPT !.n = @ + 1]
    /\ UNCHANGED <<edge, top, previous, gen, status, input, buffer, viewport>>

\* the nodes expand_empty_border is called on: the root, and the node the
\* last call returned
ExpandPool ==
    {top} \cup (IF ret.op = "expand_empty_border" THEN {ret.node} ELSE {})

ExpandCall(node) ==
    /\ status = "ok"
    /\ cache.nodes[node].level <= MaxExpandLevel
    /\ IF cache.nodes[node].level >= 1
       THEN \E r \in {expand_empty_border(cache, node)} :
              /\ cache' = r.c
              /\ ret' = [op |-> "expand_empty_border", args |-> node,
                         node |-> r.n, before |-> cache]
              /\ status' = "ok"
       \* node.get_children() unwraps the None of a leaf
       ELSE /\ cache' = cache
            /\ ret' = [op |-> "expand_empty_border", args |-> node,
                       node |-> None, before |-> cache]
            /\ status' = "panic"
    /\ UNCHANGED <<edge, top, previous, gen, input, buffer, viewport, calls>>

\* A query or a render leaves every field of the engine unchanged and takes
\* all it reads besides the engine as arguments, so a call made after one
\* leads to the state the same call leads to when made before it.  The
\* specifications SpecQuery and SpecRender therefore make every call from the
\* states in which the last call was from_array or next_generation; they
\* reach the same states as with calls made after queries and renders too.
Unobserved == ret.op \in {"from_array", "next_generation"}

Next ==
    \/ NextGeneration
    \/ \E x \in Coords, y \in Coords : Get(x, y)
    \/ \E v \in Viewports : DrawFull(v)
    \/ \E v \in Viewports, seeded \in BOOLEAN : DrawDiff(v, seeded)
    \/ \E nw \in JoinPool, ne \in JoinPool, sw \in JoinPool, se \in JoinPool :
          JoinCall(nw, ne, sw, se)
    \/ \E node \in StepPool : StepCall(node)
    \/ \E level \in 0 .. MaxEmptyLevel : EmptyCall(level)

Spec == Init /\ [][Next]_vars

\* generations only, from every input and every requested edge policy
SpecGenerations == Init /\ [][NextGeneration]_vars

\* point queries on the engine from_array built
NextQuery == \E x \in Coords, y \in Coords : Unobserved /\ Get(x, y)

SpecQuery == Init /\ [][NextQuery]_vars

\* generations and renders
NextRender ==
    \/ Unobserved /\ NextGeneration
    \/ \E v \in Viewports : Unobserved /\ DrawFull(v)
    \/ \E v \in Viewports, seeded \in BOOLEAN : Unobserved /\ DrawDiff(v, seeded)

SpecRender == InitRender /\ [][NextRender]_vars

\* generations and direct calls of join, step and empty, in any order
InitCache == InitWith(2 .. MaxCacheWidth, 1 .. MaxCacheHeight, {"Infinite"})

NextCache ==
    \/ gen < MaxCacheGen /\ NextGeneration
    \/ \E nw \in JoinPool, ne \in JoinPool, sw \in JoinPool, se \in JoinPool :
          JoinCall(nw, ne, sw, se)
    \/ \E node \in StepPool : StepCall(node)
    \/ \E level \in 0 .. MaxEmptyLevel : EmptyCall(level)

SpecCache == InitCache /\ [][NextCache]_vars

\* generations, point queries and renders, from every input of up to
\* MaxEngineWidth x MaxEngineHeight cells and every requested edge policy
InitEngine == InitWith(1 .. MaxEngineWidth, 1 .. MaxEngineHeight, Edges)

NextEngine ==
    \/ Unobserved /\ NextGeneration
    \/ \E x \in Coords, y \in Coords : Unobserved /\ Get(x, y)
    \/ \E v \in Viewports : Unobserved /\ DrawFull(v)
    \/ \E v \in Viewports, seeded \in BOOLEAN : Unobserved /\ DrawDiff(v, seeded)

SpecEngine == InitEngine /\ [][NextEngine]_vars

(***************************************************************************)
(* The shape of the root: from_array on inputs of every size up to         *)
(* MaxShape x MaxShape (all Dead, all Alive, or alternating), followed by  *)
(* max_level(), as the tests max_level_eq_0, max_level_eq_1 and cell3x2    *)
(* do.                                                                     *)
(***************************************************************************)
ShapeBuffers(width, height) ==
    {[i \in 1 .. width * height |-> 0], [i \in 1 .. width * height |-> 1],
     [i \in 1 .. width * height |-> i % 2]}

InitShape ==
    \E width \in 1 .. MaxShape, height \in 1 .. MaxShape, edge_ \in Edges :
      \E buffer_ \in ShapeBuffers(width, height) :
      \E h \in {from_array(buffer_, width, height, edge_)} :
            /\ cache = h.cache
            /\ edge = h.edge
            /\ top = h.top
            /\ previous = h.previous
            /\ gen = h.gen
            /\ status = "ok"
            /\ input = [buffer |-> buffer_, width |-> width,
                        height |-> height, edge |-> edge_]
            /\ ret = [op |-> "from_array"]
            /\ buffer = <<>>
            /\ viewport = BoundingBox_from(0, 0, 0, 0)
            /\ calls = [join |-> <<>>, step |-> <<>>, n |-> 0]

MaxLevelCall ==
    /\ status = "ok"
    /\ ret.op = "from_array"
    /\ ret' = [op |-> "max_level", value |-> max_level(Engine)]
    /\ UNCHANGED <<cache, edge, top, previous, gen, status, input, buffer,
                   viewport, calls>>

SpecShape == InitShape /\ [][MaxLevelCall]_vars

(***************************************************************************)
(* The base case of step: step(top) on the level-2 root of every 4 x 4     *)
(* input, each of the 2^16 patterns.                                       *)
(***************************************************************************)
InitStep == InitWith({Pow2(2)}, {Pow2(2)}, {"Infinite"})

StepTop == Unobserved /\ StepCall(top)

SpecStep == InitStep /\ [][StepTop]_vars

(***************************************************************************)
(* What a root means: its live cells, in engine coordinates.  A node of     *)
(* level k at block (x, y) covers the cells 2^k * x .. 2^k * x + 2^k - 1 on *)
(* each axis; its children nw, ne, sw, se are the blocks (2x, 2y + 1),      *)
(* (2x + 1, 2y + 1), (2x, 2y), (2x + 1, 2y); the children of a root are the *)
(* blocks (-1, 0), (0, 0), (-1, -1), (0, -1).                               *)
(***************************************************************************)
Level(c, node) == c.nodes[node].level

RECURSIVE NodeCells(_, _, _, _)
NodeCells(c, node, x, y) ==
    IF c.nodes[node].level = 0
    THEN IF c.nodes[node].population = 1 THEN {<<x, y>>} ELSE {}
    ELSE NodeCells(c, c.nodes[node].children[1], 2 * x, 2 * y + 1)
           \cup NodeCells(c, c.nodes[node].children[2], 2 * x + 1, 2 * y + 1)
           \cup NodeCells(c, c.nodes[node].children[3], 2 * x, 2 * y)
           \cup NodeCells(c, c.nodes[node].children[4], 2 * x + 1, 2 * y)

\* the live cells of a root of level >= 1
RootCells(c, root) ==
    NodeCells(c, c.nodes[root].children[1], -1, 0)
      \cup NodeCells(c, c.nodes[root].children[2], 0, 0)
      \cup NodeCells(c, c.nodes[root].children[3], -1, -1)
      \cup NodeCells(c, c.nodes[root].children[4], 0, -1)

\* the square a root of level n >= 1 covers
RootSquare(n) ==
    (-Pow2(n - 1) .. Pow2(n - 1) - 1) \X (-Pow2(n - 1) .. Pow2(n - 1) - 1)

(***************************************************************************)
(* Conway's Life (B3/S23) on sets of live cells.                           *)
(***************************************************************************)
Offsets == (({-1, 0, 1} \X {-1, 0, 1}) \ {<<0, 0>>})

Rule(alive, k) == k = 3 \/ (alive /\ k = 2)

\* the live cells and their neighbours: every cell that can be alive next
Halo(live) ==
    live \cup {<<p[1] + d[1], p[2] + d[2]>> : p \in live, d \in Offsets}

Neighbors(live, p) ==
    Cardinality({d \in Offsets : <<p[1] + d[1], p[2] + d[2]>> \in live})

\* one generation on the unbounded plane
LifePlane(live) ==
    {p \in Halo(live) : Rule(p \in live, Neighbors(live, p))}

\* one generation of the square of a level-n root, every cell outside Dead
LifeTruncate(live, n) == LifePlane(live) \cap RootSquare(n)

\* a coordinate taken modulo 2^n into -2^(n-1) .. 2^(n-1) - 1
Wrap(v, n) == ((v + Pow2(n - 1)) % Pow2(n)) - Pow2(n - 1)

TorusNeighbors(live, p, n) ==
    Cardinality({d \in Offsets :
                   <<Wrap(p[1] + d[1], n), Wrap(p[2] + d[2], n)>> \in live})

\* one generation of the square of a level-n root, neighbourhoods wrapped
LifeTorus(live, n) ==
    {p \in RootSquare(n) : Rule(p \in live, TorusNeighbors(live, p, n))}

\* the last call was a next_generation that returned, made on a root of
\* level >= 1 (kept in previous)
Stepped ==
    /\ ret.op = "next_generation"
    /\ status = "ok"
    /\ Level(cache, previous) >= 1

(***************************************************************************)
(* C1.  With the edge policy Truncate requested and a root of level        *)
(* n >= 1, next_generation leaves a root of the same level n whose cells   *)
(* are one B3/S23 generation of the old root's cells with every cell       *)
(* outside the root's square Dead.                                         *)
(***************************************************************************)
C1_TruncateGeneration ==
    (input.edge = "Truncate" /\ Stepped) =>
        /\ Level(cache, top) = Level(cache, previous)
        /\ RootCells(cache, top)
             = LifeTruncate(RootCells(cache, previous), Level(cache, previous))

(***************************************************************************)
(* C2.  With the edge policy Torus requested and a root of level n >= 1,   *)
(* next_generation leaves a root of level n whose cells are one B3/S23     *)
(* generation of the old root's cells with every neighbourhood taken       *)
(* modulo 2^n on both axes.                                                *)
(***************************************************************************)
C2_TorusGeneration ==
    (input.edge = "Torus" /\ Stepped) =>
        /\ Level(cache, top) = Level(cache, previous)
        /\ RootCells(cache, top)
             = LifeTorus(RootCells(cache, previous), Level(cache, previous))

(***************************************************************************)
(* C3.  With the edge policy Infinite and a root of level n >= 1, the live *)
(* cells of the root after next_generation are exactly the B3/S23          *)
(* successor, on the unbounded plane, of the live cells of the root        *)
(* before, with the origin fixed.                                          *)
(***************************************************************************)
C3_InfiniteGeneration ==
    (edge = "Infinite" /\ Stepped) =>
        RootCells(cache, top) = LifePlane(RootCells(cache, previous))

\* a generation in which life spilled out of the old root's square and the
\* root grew by one level
C3_Witness ==
    /\ edge = "Infinite"
    /\ Stepped
    /\ Level(cache, top) = Level(cache, previous) + 1
    /\ RootCells(cache, top) \ RootSquare(Level(cache, previous)) # {}

(***************************************************************************)
(* C4.  The edge policy given to from_array is the engine's edge policy,   *)
(* after from_array and after every later call.                            *)
(***************************************************************************)
C4_EdgeAsRequested == edge = input.edge

(***************************************************************************)
(* The rectangle from_array places a width x height input in:              *)
(* left = -floor(w/2), right = left + w - 1, bottom = -floor(h/2),         *)
(* top = bottom + h - 1.                                                   *)
(***************************************************************************)
InputViewport(width, height) ==
    [top |-> height - (height \div 2) - 1, bottom |-> -(height \div 2),
     left |-> -(width \div 2), right |-> width - (width \div 2) - 1]

InBox(box, x, y) ==
    box.left <= x /\ x <= box.right /\ box.bottom <= y /\ y <= box.top

\* the automaton the input buffer holds for the point (x, y), Dead outside
\* the input rectangle
InputCell(x, y) ==
    LET box == InputViewport(input.width, input.height)
    IN  IF InBox(box, x, y)
        THEN IF input.buffer[input.width * (box.top - y) + (x - box.left) + 1] = 0
             THEN Dead ELSE Alive
        ELSE Dead

(***************************************************************************)
(* C5.  Round trip: from_array(b, w, h, Truncate) followed by              *)
(* draw_to_viewport_buffer on a zeroed buffer with the viewport of the     *)
(* input rectangle yields a buffer equal to b.                             *)
(***************************************************************************)
C5_RoundTrip ==
    ( /\ ret.op = "draw_to_viewport_buffer"
      /\ input.edge = "Truncate"
      /\ gen = 0
      /\ viewport = InputViewport(input.width, input.height) )
    => (status = "ok" /\ buffer = input.buffer)

\* a round trip of a 3 x 2 input whose rows differ and whose columns differ
C5_Witness ==
    /\ ret.op = "draw_to_viewport_buffer"
    /\ gen = 0
    /\ viewport = InputViewport(input.width, input.height)
    /\ input.width = 3
    /\ input.height = 2
    /\ input.buffer = <<1, 0, 0, 0, 1, 1>>
    /\ buffer = <<1, 0, 0, 0, 1, 1>>

(***************************************************************************)
(* C6.  For an engine built by from_array(b, w, h, _) with max(w, h) >= 2  *)
(* and every point (x, y) of the root square, get(x, y) is the automaton   *)
(* of b[w * (top - y) + (x - left)] when the point is in the input         *)
(* rectangle, and Dead when it is in the root but outside that rectangle.  *)
(***************************************************************************)
C6_GetInsideRoot ==
    ( /\ ret.op = "get"
      /\ gen = 0
      /\ Max(input.width, input.height) >= 2
      /\ <<ret.x, ret.y>> \in RootSquare(Level(cache, top)) )
    => ( /\ status = "ok"
         /\ ret.some
         /\ ret.value = InputCell(ret.x, ret.y)
         /\ Level(cache, top) = CeilLog2(Max(input.width, input.height)) )

\* a get of a live cell of the bottom row of a 3 x 3 input whose top row
\* is dead
C6_Witness ==
    /\ ret.op = "get"
    /\ input.width = 3
    /\ input.height = 3
    /\ input.buffer = <<0, 0, 0, 0, 0, 0, 0, 0, 1>>
    /\ ret.x = 1
    /\ ret.y = -1
    /\ ret.some
    /\ ret.value = Alive

(***************************************************************************)
(* The value a full render shows for the cell (x, y) when the root is      *)
(* `root` (of level >= 1): 1 for a live cell, 0 for any other.             *)
(***************************************************************************)
Shown(root, x, y) == IF <<x, y>> \in RootCells(cache, root) THEN 1 ELSE 0

\* the cells of the viewport of the last render
ViewportCells ==
    (viewport.left .. viewport.right) \X (viewport.bottom .. viewport.top)

(***************************************************************************)
(* C7.  Differential render equals full render: after at least one         *)
(* next_generation and for any viewport, a buffer that holds the full      *)
(* render of the previous generation and is then updated by                *)
(* draw_diff_to_viewport_array equals the full render of the current       *)
(* generation on a zeroed buffer.                                          *)
(***************************************************************************)
C7_DiffEqualsFull ==
    (ret.op = "draw_diff_to_viewport_array" /\ ret.seeded /\ gen >= 1)
    => ( /\ status = "ok"
         /\ buffer = draw_to_viewport_buffer(Engine, Zeroed(viewport),
                                             viewport).buf )

(***************************************************************************)
(* C8.  draw_diff_to_viewport_array writes a buffer entry only for a       *)
(* viewport cell whose value differs between top and previous: the entry   *)
(* of every cell with the same value in both generations is not written    *)
(* and holds what it held before the call.                                 *)
(***************************************************************************)
C8_DiffWritesOnlyChanges ==
    (ret.op = "draw_diff_to_viewport_array" /\ previous # None)
    => ( /\ \A i \in ret.written :
              \E p \in ViewportCells :
                  /\ BoundingBox_width(viewport) * (viewport.top - p[2])
                        + (p[1] - viewport.left) = i
                  /\ Shown(top, p[1], p[2]) # Shown(previous, p[1], p[2])
         /\ \A i \in 1 .. Len(buffer) :
              (i - 1) \notin ret.written => buffer[i] = ret.before[i] )

\* a differential render into a zeroed buffer that wrote a changed cell and
\* left the entry of a cell that stayed Alive at 0
C8_Witness ==
    /\ ret.op = "draw_diff_to_viewport_array"
    /\ status = "ok"
    /\ ~ret.seeded
    /\ previous # None
    /\ ret.written # {}
    /\ \E p \in ViewportCells :
          /\ Shown(top, p[1], p[2]) = 1
          /\ Shown(previous, p[1], p[2]) = 1
          /\ buffer[BoundingBox_width(viewport) * (viewport.top - p[2])
                      + (p[1] - viewport.left) + 1] = 0

(***************************************************************************)
(* C9.  Interning law of join: a call join(nw, ne, sw, se) with four       *)
(* children of equal level returns a node of level = child level + 1 with  *)
(* exactly those children in the order nw, ne, sw, se; a call with the     *)
(* children of an earlier call, whatever the engine did in between,        *)
(* returns the same reference and adds no entry to the join table.         *)
(***************************************************************************)
C9_JoinInterned ==
    (ret.op = "join" /\ status = "ok")
    => ( /\ Level(cache, ret.node) = Level(cache, ret.args[1]) + 1
         /\ cache.nodes[ret.node].children = ret.args
         /\ ret.earlier # None
              => (ret.node = ret.earlier /\ cache.join = ret.before.join) )

\* a second call with the children of an earlier call, which made a level-2
\* node with a live cell, in an engine that has stepped a generation
C9_Witness ==
    /\ ret.op = "join"
    /\ status = "ok"
    /\ ret.earlier # None
    /\ gen = 1
    /\ Level(cache, ret.node) = 2
    /\ cache.nodes[ret.node].population > 0

(***************************************************************************)
(* C10.  Memoization of step: for a node of level >= 2, a call step(n)     *)
(* after an earlier call step(n) returns the same reference, and a call on *)
(* a node whose content is a key of the step table returns the node the    *)
(* table holds; either call runs no step body and adds no node and no      *)
(* entry to the step or join tables (the cache is as before the call).     *)
(***************************************************************************)
C10_StepMemoized ==
    (ret.op = "step" /\ status = "ok" /\ Level(cache, ret.args) >= 2)
    => ( /\ ret.earlier # None
              => (ret.node = ret.earlier /\ cache = ret.before)
         /\ \A k \in DOMAIN ret.before.step :
              NodeEq(ret.before.nodes[k], ret.before.nodes[ret.args])
                => (ret.node = ret.before.step[k] /\ cache = ret.before) )

\* a second call step(top) on the level-2 root from_array built, the first
\* having run the only step body so far
C10_Witness ==
    /\ ret.op = "step"
    /\ status = "ok"
    /\ ret.earlier # None
    /\ gen = 0
    /\ ret.args = top
    /\ Level(cache, top) = 2
    /\ cache.nodes[top].population > 0
    /\ cache.work = 1

(***************************************************************************)
(* C11.  get returns None only when the engine has no root: on an engine   *)
(* with a root of any level >= 0, the level-0 root of a 1 x 1 input        *)
(* included, get(0, 0) returns Some automaton.                             *)
(***************************************************************************)
C11_GetSomeOnEveryRoot ==
    (ret.op = "get" /\ top # None /\ ret.x = 0 /\ ret.y = 0)
    => (status = "ok" /\ ret.some)

(***************************************************************************)
(* C12.  For a root of level >= 1 and a point (x, y) outside the root's    *)
(* square, get(x, y) returns, and returns Some automaton: no signed        *)
(* (x, y) is a fatal error.                                                *)
(***************************************************************************)
C12_GetOutsideRoot ==
    ( /\ ret.op = "get"
      /\ top # None
      /\ Level(cache, top) >= 1
      /\ <<ret.x, ret.y>> \notin RootSquare(Level(cache, top)) )
    => (status = "ok" /\ ret.some)

(***************************************************************************)
(* C13.  get_generation is 0 after from_array; a next_generation call that *)
(* completes on a root raises it by exactly 1; every other call (get, the  *)
(* two renders, a next_generation that does not complete) leaves it        *)
(* unchanged.  It therefore never decreases and equals the number of       *)
(* next_generation calls completed on a root.                              *)
(***************************************************************************)
C13_GenerationCounts ==
    /\ get_generation(Engine) = 0
    /\ [][IF ret'.op = "next_generation" /\ status' = "ok" /\ top # None
          THEN get_generation(Engine)' = get_generation(Engine) + 1
          ELSE get_generation(Engine)' = get_generation(Engine)]_vars

\* a render made after MaxGen completed generations
C13_Witness ==
    /\ ret.op = "draw_to_viewport_buffer"
    /\ status = "ok"
    /\ previous # None
    /\ get_generation(Engine) = MaxGen

(***************************************************************************)
(* C14.  previous is None before the first next_generation.  Every         *)
(* next_generation on an engine with a root, whatever edge policy was      *)
(* requested, returns and leaves previous = the old top and top = a root   *)
(* the call computed (a node of the cache, the old top still being the     *)
(* node it was); get and the renders change neither top nor previous.      *)
(***************************************************************************)
C14_PreviousAndTop ==
    /\ previous = None
    /\ [][IF ret'.op = "next_generation"
          THEN top # None =>
                 /\ status' = "ok"
                 /\ previous' = top
                 /\ top' \in DOMAIN cache'.nodes
                 /\ cache'.nodes[previous'] = cache.nodes[top]
          ELSE top' = top /\ previous' = previous]_vars

\* the cells a root covers: the square of a root of level >= 1, the one cell
\* (0, 0) of a level-0 root
RootArea(root) ==
    IF Level(cache, root) = 0 THEN {<<0, 0>>}
    ELSE RootSquare(Level(cache, root))

(***************************************************************************)
(* C15.  Both renderers respect the viewport: for a root of any level,     *)
(* level 0 included, every buffer entry a render writes is the entry       *)
(* viewport.index(x, y) of a cell (x, y) inside both the viewport and the  *)
(* root, every written index is in 0 .. width * height - 1, every written  *)
(* value is 0 or 1, and every other entry is as it was before the call.    *)
(***************************************************************************)
C15_RespectsViewport ==
    ret.op \in {"draw_to_viewport_buffer", "draw_diff_to_viewport_array"}
    => ( /\ \A i \in ret.written :
              /\ \E p \in ViewportCells \cap RootArea(top) :
                    BoundingBox_width(viewport) * (viewport.top - p[2])
                        + (p[1] - viewport.left) = i
              /\ i \in 0 .. BoundingBox_width(viewport)
                               * BoundingBox_height(viewport) - 1
              /\ buffer[i + 1] \in {0, 1}
         /\ \A i \in 1 .. Len(buffer) :
              (i - 1) \notin ret.written => buffer[i] = ret.before[i] )

\* population(root)
Population(root) == cache.nodes[root].population

\* the dead cells with exactly three live neighbours: the births of the
\* next generation
Births(live) == {p \in Halo(live) \ live : Neighbors(live, p) = 3}

(***************************************************************************)
(* C16 as stated.  Population monotonicity under Truncate: with the edge   *)
(* policy Truncate requested and the pattern inside the original root,     *)
(* population(top) after next_generation is at most population(top) before *)
(* it, in every generation.                                                *)
(***************************************************************************)
C16_PopulationMonotone ==
    (input.edge = "Truncate" /\ Stepped)
    => Population(top) <= Population(previous)

(***************************************************************************)
(* C16 amended.  With the edge policy Truncate requested, population(top)  *)
(* after next_generation is at most population(top) before it whenever no  *)
(* dead cell has exactly three live neighbours before the call (no cell is *)
(* born).                                                                  *)
(***************************************************************************)
C16_PopulationMonotoneWithoutBirths ==
    ( /\ input.edge = "Truncate"
      /\ Stepped
      /\ Births(RootCells(cache, previous)) = {} )
    => Population(top) <= Population(previous)

\* a generation without births in which some cells died and some survived
C16_Witness ==
    /\ input.edge = "Truncate"
    /\ Stepped
    /\ Births(RootCells(cache, previous)) = {}
    /\ Population(top) > 0
    /\ Population(top) < Population(previous)

BlinkerInput ==
    /\ input.edge = "Truncate"
    /\ input.width = 3
    /\ input.height = 3
    /\ input.buffer = <<0, 1, 0, 0, 1, 0, 0, 1, 0>>

(***************************************************************************)
(* C18.  The blinker has period 2: for the 3 x 3 input                     *)
(* [[0,1,0],[0,1,0],[0,1,0]] built with Truncate, every next_generation    *)
(* returns, the full render into the centred 3 x 3 viewport is             *)
(* [[0,0,0],[1,1,1],[0,0,0]] after an odd number of generations and the    *)
(* input after an even number, and after an even number the root is the    *)
(* very node from_array built.                                             *)
(***************************************************************************)
C18_BlinkerPeriod2 ==
    BlinkerInput
    => ( /\ status = "ok"
         /\ gen % 2 = 0
              => top = from_array(input.buffer, 3, 3, input.edge).top
         /\ (ret.op = "draw_to_viewport_buffer"
               /\ viewport = InputViewport(3, 3))
              => buffer = IF gen % 2 = 1
                          THEN <<0, 0, 0, 1, 1, 1, 0, 0, 0>>
                          ELSE <<0, 1, 0, 0, 1, 0, 0, 1, 0>> )

\* the render of the second generation: the blinker is back
C18_Witness ==
    /\ BlinkerInput
    /\ gen = 2
    /\ ret.op = "draw_to_viewport_buffer"
    /\ viewport = InputViewport(3, 3)
    /\ buffer = <<0, 1, 0, 0, 1, 0, 0, 1, 0>>

\* the sizes the claim names, with the level of their root
ShapeExamples ==
    {<<1, 1, 0>>, <<2, 2, 1>>, <<3, 2, 2>>, <<3, 3, 2>>, <<4, 4, 2>>,
     <<4, 6, 3>>, <<8, 8, 3>>}

\* the cells of the input rectangle that the input buffer holds Alive
InputLive ==
    LET box == InputViewport(input.width, input.height)
    IN  {p \in (box.left .. box.right) \X (box.bottom .. box.top) :
            InputCell(p[1], p[2]) = Alive}

(***************************************************************************)
(* C19.  The root from_array builds has the level s that is least with     *)
(* 2^s >= max(width, height) (0 for 1x1, 1 for 2x2, 2 for 3x2, 3x3 and     *)
(* 4x4, 3 for 4x6 and 8x8), max_level() returns it, and for width,         *)
(* height >= 2 the input rectangle lies inside the root's square: every    *)
(* cell of the rectangle is a cell of the square and the root holds it as  *)
(* the buffer gives it.                                                    *)
(***************************************************************************)
C19_RootLevel ==
    LET s == Level(cache, top)
        box == InputViewport(input.width, input.height)
    IN  /\ Pow2(s) >= Max(input.width, input.height)
        /\ s > 0 => Pow2(s - 1) < Max(input.width, input.height)
        /\ \A e \in ShapeExamples :
              (input.width = e[1] /\ input.height = e[2]) => s = e[3]
        /\ ret.op = "max_level" => ret.value = s
        /\ (input.width >= 2 /\ input.height >= 2)
              => ( /\ (box.left .. box.right) \X (box.bottom .. box.top)
                         \subseteq RootSquare(s)
                   /\ RootCells(cache, top) = InputLive )

\* max_level() on the root of a 4 x 6 input of live cells: level 3, all 24
\* cells in the root
C19_Witness ==
    /\ ret.op = "max_level"
    /\ ret.value = 3
    /\ input.width = 4
    /\ input.height = 6
    /\ Cardinality(RootCells(cache, top)) = 24

\* the centre cells of a level-2 root, by the child of the result that holds
\* their next state: nw is nwse, ne is nesw, sw is swne, se is senw
Centre ==
    [nw |-> <<-1, 0>>, ne |-> <<0, 0>>, sw |-> <<-1, -1>>, se |-> <<0, -1>>]

(***************************************************************************)
(* C20.  Base case of step: for every level-2 node (each of the 2^16       *)
(* 4 x 4 patterns) step returns a level-1 node whose leaves nw, ne, sw, se *)
(* are the B3/S23 next states of the centre cells nwse, nesw, swne, senw,  *)
(* each from its own eight neighbours in the 4 x 4 block: Alive iff alive  *)
(* with 2 or 3 live neighbours or dead with exactly 3.                     *)
(***************************************************************************)
C20_StepBaseCase ==
    (ret.op = "step" /\ Level(ret.before, ret.args) = 2)
    => LET live == RootCells(ret.before, ret.args)
           k == get_children(cache, ret.node)
       IN  /\ status = "ok"
           /\ Level(cache, ret.node) = 1
           /\ \A q \in DOMAIN Centre :
                 /\ Level(cache, k[q]) = 0
                 /\ as_automata(cache, k[q])
                      = IF Rule(Centre[q] \in live, Neighbors(live, Centre[q]))
                        THEN Alive ELSE Dead

\* step of a 4 x 4 pattern in which a centre cell is born, one survives,
\* one dies and one stays Dead
C20_Witness ==
    /\ ret.op = "step"
    /\ status = "ok"
    /\ Level(ret.before, ret.args) = 2
    /\ LET live == RootCells(ret.before, ret.args)
           next == RootCells(cache, ret.node)
       IN  /\ \E p \in RootSquare(1) : p \notin live /\ p \in next
           /\ \E p \in RootSquare(1) : p \in live /\ p \in next
           /\ \E p \in RootSquare(1) : p \in live /\ p \notin next
           /\ \E p \in RootSquare(1) : p \notin live /\ p \notin next

\* the node the join table holds for four children
JoinOf(nw, ne, sw, se) == cache.join[calculate_hash(cache, <<nw, ne, sw, se>>)]

\* the node the step table holds for a node
StepOf(node) ==
    cache.step[CHOOSE k \in DOMAIN cache.step :
                   NodeEq(cache.nodes[k], cache.nodes[node])]

\* the nine overlapping level-(k-1) squares of a level-k node, stepped: the
\* four children, and the squares between them (n, e, s, w) and in the
\* middle (c), made of the grand-children they cover
SteppedNonants(node) ==
    LET k == get_children(cache, node)
        g == get_grand_children(cache, node)
    IN  [nw |-> get_children(cache, StepOf(k.nw)),
         ne |-> get_children(cache, StepOf(k.ne)),
         sw |-> get_children(cache, StepOf(k.sw)),
         se |-> get_children(cache, StepOf(k.se)),
         n |-> get_children(cache, StepOf(JoinOf(g.nwne, g.nenw, g.nwse, g.nesw))),
         e |-> get_children(cache, StepOf(JoinOf(g.nesw, g.nese, g.senw, g.sene))),
         s |-> get_children(cache, StepOf(JoinOf(g.swne, g.senw, g.swse, g.sesw))),
         w |-> get_children(cache, StepOf(JoinOf(g.nwsw, g.nwse, g.swnw, g.swne))),
         c |-> get_children(cache, StepOf(JoinOf(g.nwse, g.nesw, g.swne, g.senw)))]

(***************************************************************************)
(* C21.  Recursive case of step: for a node of level k >= 3, step returns  *)
(* a node of level k - 1 whose cells are the centre 2^(k-1) x 2^(k-1)      *)
(* cells of the node after exactly one B3/S23 generation, and whose        *)
(* quadrants are joined from the nine stepped nonants as                   *)
(* nw = (nw.se, n.sw, w.ne, c.nw), ne = (n.se, ne.sw, c.ne, e.nw),         *)
(* sw = (w.se, c.sw, sw.ne, s.nw), se = (c.se, e.sw, s.ne, se.nw).         *)
(***************************************************************************)
C21_StepRecursiveCase ==
    (ret.op = "step" /\ status = "ok" /\ Level(ret.before, ret.args) >= 3)
    => LET k == Level(ret.before, ret.args)
           r == get_children(cache, ret.node)
           t == SteppedNonants(ret.args)
       IN  /\ Level(cache, ret.node) = k - 1
           /\ RootCells(cache, ret.node)
                = LifePlane(RootCells(ret.before, ret.args))
                    \cap RootSquare(k - 1)
           /\ cache.nodes[r.nw].children = <<t.nw.se, t.n.sw, t.w.ne, t.c.nw>>
           /\ cache.nodes[r.ne].children = <<t.n.se, t.ne.sw, t.c.ne, t.e.nw>>
           /\ cache.nodes[r.sw].children = <<t.w.se, t.c.sw, t.sw.ne, t.s.nw>>
           /\ cache.nodes[r.se].children = <<t.c.se, t.e.sw, t.s.ne, t.se.nw>>

\* a first step of a node of level 3 in which a cell of the centre is born
\* and a live cell dies
C21_Witness ==
    /\ ret.op = "step"
    /\ status = "ok"
    /\ Level(ret.before, ret.args) = 3
    /\ ret.before.work < cache.work
    /\ \E p \in RootCells(cache, ret.node) :
          p \notin RootCells(ret.before, ret.args)
    /\ \E p \in RootCells(ret.before, ret.args) :
          p \notin RootCells(cache, ret.node)

(***************************************************************************)
(* C22.  Root level under Infinite: from a root of level n >= 1 a          *)
(* generation yields a root of level n when the next generation has no     *)
(* live cell outside the centre level-n square, and of level n + 1         *)
(* otherwise; the root is contracted at most once, so its level never      *)
(* decreases and grows by at most one per generation.                      *)
(***************************************************************************)
C22_InfiniteRootLevel ==
    (edge = "Infinite" /\ Stepped /\ Level(cache, previous) >= 1) =>
        LET n == Level(cache, previous)
            stepped == LifePlane(RootCells(cache, previous))
                         \cap RootSquare(n + 1)
        IN  /\ Level(cache, top) = IF stepped \subseteq RootSquare(n)
                                   THEN n ELSE n + 1
            /\ Level(cache, top) >= n
            /\ Level(cache, top) <= n + 1

\* a second generation whose live cells changed and fit the square of a root
\* that had grown in the first: the result of step was contracted once
C22_Witness ==
    /\ edge = "Infinite"
    /\ Stepped
    /\ gen = 2
    /\ Level(cache, previous) >= 2
    /\ Level(cache, top) = Level(cache, previous)
    /\ RootCells(cache, top) # {}
    /\ RootCells(cache, top) # RootCells(cache, previous)

\* expand_empty_border on the root from_array built, and on what it returned
NextExpand == \E node \in ExpandPool : ExpandCall(node)

SpecExpand == InitEngine /\ [][NextExpand]_vars

(***************************************************************************)
(* C23.  expand_empty_border: for a node of level n >= 1 the result has    *)
(* level n + 1 and the population of the node; its four centre             *)
(* grand-children nwse, nesw, swne, senw are the node's nw, ne, sw, se,    *)
(* and its twelve other grand-children are the all-dead node of level      *)
(* n - 1.                                                                  *)
(***************************************************************************)
C23_ExpandEmptyBorder ==
    (ret.op = "expand_empty_border" /\ Level(ret.before, ret.args) >= 1) =>
        /\ status = "ok"
        /\ LET n == Level(ret.before, ret.args)
               k == get_children(ret.before, ret.args)
               g == get_grand_children(cache, ret.node)
               outer == {"nwnw", "nwne", "nwsw", "nenw", "nene", "nese",
                         "swnw", "swsw", "swse", "sene", "sesw", "sese"}
           IN  /\ Level(cache, ret.node) = n + 1
               /\ cache.nodes[ret.node].population
                    = ret.before.nodes[ret.args].population
               /\ g.nwse = k.nw
               /\ g.nesw = k.ne
               /\ g.swne = k.sw
               /\ g.senw = k.se
               /\ \A f \in outer :
                     /\ Level(cache, g[f]) = n - 1
                     /\ cache.nodes[g[f]].population = 0
                     /\ NodeCells(cache, g[f], 0, 0) = {}
                     /\ \A f2 \in outer : g[f2] = g[f]

\* the border added to a node of level 2 with a live cell in each quadrant
C23_Witness ==
    /\ ret.op = "expand_empty_border"
    /\ status = "ok"
    /\ Level(ret.before, ret.args) = 2
    /\ \A i \in 1 .. 4 :
          ret.before.nodes[ret.before.nodes[ret.args].children[i]].population > 0

\* the nodes the join table, the step table, top and previous refer to
Roots ==
    ({cache.join[h] : h \in DOMAIN cache.join}
        \cup DOMAIN cache.step
        \cup {cache.step[k] : k \in DOMAIN cache.step}
        \cup {top, previous}) \ {None}

\* a set of nodes with their children, grand-children and so on
RECURSIVE WithDescendants(_)
WithDescendants(S) ==
    LET T == S \cup UNION {{cache.nodes[n].children[i] :
                               i \in DOMAIN cache.nodes[n].children} : n \in S}
    IN  IF T = S THEN S ELSE WithDescendants(T)

Reachable == WithDescendants(Roots)

WellFormed(n) ==
    LET node == cache.nodes[n]
    IN  /\ (node.children = <<>>) <=> (node.level = 0)
        /\ node.level = 0 => node.population \in {0, 1}
        /\ node.level > 0 =>
              /\ Len(node.children) = 4
              /\ \A i \in 1 .. 4 :
                    cache.nodes[node.children[i]].level = node.level - 1
              /\ node.population
                   = SumSeq([i \in 1 .. 4 |->
                                cache.nodes[node.children[i]].population])
        /\ node.population >= 0
        /\ node.population <= Pow2(2 * node.level)

(***************************************************************************)
(* C24.  Structural invariant: every node reachable from the join table,   *)
(* the step table, top or previous has no children exactly when its level  *)
(* is 0 and four children of the level below otherwise, and a population   *)
(* that is the sum of its children's (0 or 1 for a leaf), hence between 0  *)
(* and 4^level.                                                            *)
(***************************************************************************)
C24_NodesWellFormed == \A n \in Reachable : WellFormed(n)

\* a join call made by hand has built a new node with live cells above the
\* nodes of from_array, next to a step table that holds entries
C24_Witness ==
    /\ ret.op = "join"
    /\ status = "ok"
    /\ Len(cache.nodes) > Len(ret.before.nodes)
    /\ cache.nodes[ret.node].level >= 2
    /\ cache.nodes[ret.node].population > 0
    /\ ret.node \in Reachable
    /\ DOMAIN cache.step # {}

\* the coordinates get is called with next to the calls on the cache
TableCoords == {-1, 0}

\* the last call was not a query or a render
Changed ==
    ret.op \in {"from_array", "next_generation", "join", "step", "empty"}

\* generations, direct calls of join, step and empty, and after any of them
\* a point query or a render of the input's viewport
NextTables ==
    \/ Changed /\ gen < MaxCacheGen /\ NextGeneration
    \/ \E nw \in JoinPool, ne \in JoinPool, sw \in JoinPool, se \in JoinPool :
          Changed /\ JoinCall(nw, ne, sw, se)
    \/ \E node \in StepPool : Changed /\ StepCall(node)
    \/ \E level \in 0 .. MaxEmptyLevel : Changed /\ EmptyCall(level)
    \/ \E x \in TableCoords, y \in TableCoords : Changed /\ Get(x, y)
    \/ Changed /\ DrawFull(InputViewport(input.width, input.height))
    \/ \E seeded \in BOOLEAN :
          Changed /\ DrawDiff(InputViewport(input.width, input.height), seeded)

SpecTables == InitCache /\ [][NextTables]_vars

\* every entry of the two tables is an entry after the step
TablesKept ==
    /\ \A h \in DOMAIN cache.join :
          h \in DOMAIN cache'.join /\ cache'.join[h] = cache.join[h]
    /\ \A k \in DOMAIN cache.step :
          k \in DOMAIN cache'.step /\ cache'.step[k] = cache.step[k]

(***************************************************************************)
(* C25.  The cache grows monotonically: over any sequence of from_array,   *)
(* join, empty, step, next_generation, get and render calls no entry       *)
(* leaves the join table or the step table and no key present is bound to  *)
(* another node; get and the renderers add no entry.                       *)
(***************************************************************************)
C25_CacheMonotone ==
    [][/\ TablesKept
       /\ ret'.op \in {"get", "draw_to_viewport_buffer",
                       "draw_diff_to_viewport_array"}
            => (cache'.join = cache.join /\ cache'.step = cache.step)]_vars

\* a render after a generation and a step call that each added entries to
\* both tables
C25_Witness ==
    /\ ret.op \in {"draw_to_viewport_buffer", "draw_diff_to_viewport_array"}
    /\ status = "ok"
    /\ gen = 1
    /\ DOMAIN calls.step # {}
    /\ cache.work > 1
    /\ buffer # <<>>

\* the ConstructionParameters from_array packs for the input
ConstructParams ==
    [level |-> CeilLog2(Max(input.width, input.height)),
     vector |-> input.buffer, width |-> input.width, height |-> input.height,
     bound |-> InputViewport(input.width, input.height)]

\* the calls construct(x, y, level) made below one call of construct: the
\* closure assemble calls construct for each (dx, dy) when its test holds
RECURSIVE ConstructCalls(_, _, _, _)
ConstructCalls(x, y, level, params) ==
    {<<x, y, level>>}
      \cup IF level >= 1 /\ assemble_collides(x, y, level, params)
           THEN UNION {ConstructCalls(2 * x + d[1], 2 * y + d[2],
                                      level - 1, params) :
                          d \in {0, 1} \X {0, 1}}
           ELSE {}

\* the calls of construct from_array makes for the input
FromArrayCalls ==
    IF ConstructParams.level = 0
    THEN {}
    ELSE UNION {ConstructCalls(q[1], q[2], ConstructParams.level - 1,
                               ConstructParams) :
                   q \in {-1, 0} \X {-1, 0}}

(***************************************************************************)
(* C26.  Pruning in construct: at every level >= 1 the child quadrant      *)
(* (2x + dx, 2y + dy) of level - 1 is replaced by empty(level - 1) exactly *)
(* when the child's own bounding box does not collide with the input       *)
(* viewport, and is built recursively otherwise.                           *)
(***************************************************************************)
C26_PrunesOwnBox ==
    \A call \in FromArrayCalls : \A d \in {0, 1} \X {0, 1} :
        call[3] >= 1 =>
            (~assemble_collides(call[1], call[2], call[3], ConstructParams)
               <=> ~collides(BoundingBox_new(2 * call[1] + d[1],
                                             2 * call[2] + d[2], call[3] - 1),
                             ConstructParams.bound))

(***************************************************************************)
(* C27.  join with four children that are not all of one level is a fatal  *)
(* error and leaves the engine unchanged: no node is inserted into the     *)
(* join table, and top, previous and gen keep their values.                *)
(***************************************************************************)
C27_JoinUnequalLevels ==
    [][(/\ ret'.op = "join"
        /\ \E i \in 2 .. 4 :
              Level(cache, ret'.args[i]) # Level(cache, ret'.args[1]))
       => /\ status' = "panic"
          /\ ret'.node = None
          /\ cache'.join = cache.join
          /\ cache'.nodes = cache.nodes
          /\ top' = top
          /\ previous' = previous
          /\ gen' = gen]_vars

\* a join of a leaf with three nodes of level 1, after a generation
C27_Witness ==
    /\ ret.op = "join"
    /\ status = "panic"
    /\ gen = 1
    /\ top # previous
    /\ \E i \in 2 .. 4 :
          Level(cache, ret.args[i]) # Level(cache, ret.args[1])
    /\ cache.join = ret.before.join

(***************************************************************************)
(* C28.  On an engine built from a 1 x 1 buffer (a level-0 root)           *)
(* next_generation completes without a fatal error under every edge        *)
(* policy, and leaves a root present and get_generation() = 1.             *)
(***************************************************************************)
C28_LeafRootGeneration ==
    (ret.op = "next_generation" /\ input.width = 1 /\ input.height = 1) =>
        /\ status = "ok"
        /\ top # None
        /\ get_generation(Engine) = 1

(***************************************************************************)
(* C29.  Lock-step descent of the differential render: the nodes           *)
(* draw_diff_to_viewport_array compares or descends in pairs have the same *)
(* level and cover the same square in top and in previous; in particular,  *)
(* after a generation that grew the root by one level, the differential    *)
(* render over a viewport that intersects the root completes without a     *)
(* fatal error.                                                            *)
(***************************************************************************)
C29_DiffLockStep ==
    (/\ ret.op = "draw_diff_to_viewport_array"
     /\ previous # None
     /\ Level(cache, top) >= 1
     /\ Level(cache, previous) >= 1)
    => /\ \A i \in 1 .. 4 :
             Level(cache, cache.nodes[top].children[i])
               = Level(cache, cache.nodes[previous].children[i])
       /\ ViewportCells \cap RootArea(top) # {} => status = "ok"

\* an engine after k calls of next_generation
RECURSIVE Advance(_, _)
Advance(h, k) == IF k = 0 THEN h ELSE Advance(next_generation(h).h, k - 1)

\* the engine from_array builds from the input, advanced by as many
\* generations as this engine, with no other call made on it
FreshEngine ==
    Advance(from_array(input.buffer, input.width, input.height, input.edge),
            gen)

(***************************************************************************)
(* C30.  Memoization is transparent and engines are deterministic: two     *)
(* engines built from the same buffer, dimensions and edge policy and      *)
(* advanced by the same number of next_generation calls hold roots of the  *)
(* same level and the same cells after every generation, whatever join,    *)
(* empty or step calls have filled the cache of either before.  (Each      *)
(* engine is compared with the one on which no such call was made.)        *)
(***************************************************************************)
C30_MemoizationTransparent ==
    (ret.op = "next_generation" /\ status = "ok") =>
    \A f \in {FreshEngine} :
        /\ Level(cache, top) = Level(f.cache, f.top)
        /\ RootCells(cache, top) = RootCells(f.cache, f.top)
        /\ gen >= 1 =>
              /\ Level(cache, previous) = Level(f.cache, f.previous)
              /\ RootCells(cache, previous) = RootCells(f.cache, f.previous)

\* a generation computed after step and join calls made by hand: the cache
\* held step results before the call and holds nodes the fresh engine lacks
C30_Witness ==
    /\ ret.op = "next_generation"
    /\ status = "ok"
    /\ gen = 1
    /\ DOMAIN calls.step # {}
    /\ DOMAIN calls.join # {}
    /\ RootCells(cache, top) # {}
    /\ RootCells(cache, top) # RootCells(cache, previous)
    /\ \E f \in {FreshEngine} :
          /\ Len(cache.nodes) > Len(f.cache.nodes)
          /\ cache.work < f.cache.work + 2

====
